---- MODULE Spec2Model ----
(***************************************************************************)
(* The three Streamlit pages of the tennis analytics dashboard             *)
(* (1_Competitions.py, 2_Complexes_Venues.py, 3_Competitor_Rankings.py).   *)
(*                                                                         *)
(* A page is a script that Streamlit re-executes from its first to its     *)
(* last statement on every user interaction.  One render is modelled as a  *)
(* walk of pc through the statements of the script; every run_sql_query    *)
(* call and every widget read is one step.  Text is modelled as sequences  *)
(* of one-character strings so that the f-string interpolation of widget   *)
(* values into SQL, and the way PostgreSQL lexes the result, are computed  *)
(* and not assumed.  The fixed text of a query template is kept as         *)
(* multi-character tokens, which can never be equal to a typed character.  *)
(***************************************************************************)
EXTENDS Integers, Sequences, FiniteSets, TLC

VARIABLES
    store,      \* the relational store (read-only for the dashboard)
    cache,      \* st.cache_resource: function key -> memoized return value
    bodyRuns,   \* function key -> times the body of get_db_connection has run for it
    page,       \* the page being rendered
    pc,         \* position in the page script
    engine,     \* module-level `engine` of the running script
    sel,        \* values read from selectbox / text_input widgets
    nums,       \* values read from number_input widgets
    dfs,        \* DataFrames bound to script variables
    msgs,       \* st.warning / st.error / st.info elements rendered, in order
    connects    \* engine_obj.connect() calls made in this render

vars == <<store, cache, bodyRuns, page, pc, engine, sel, nums, dfs, msgs, connects>>

-----------------------------------------------------------------------------
(* Bounds of the model *)

\* longest text typed into the name search
MaxLen == 2
\* rank inputs tried besides the widget default: 1..MaxRank
MaxRank == 1
\* cap on executions of get_db_connection bodies in one process
MaxOpens == 4

-----------------------------------------------------------------------------
(* Text *)

All == <<"A", "l", "l">>
Q == "'"

\* SQL NULL as it appears in a stored column
Null == <<"NULL">>

Alphabet == {"a", Q}

RECURSIVE StringsUpTo(_)
StringsUpTo(n) ==
    IF n = 0 THEN {<<>>}
    ELSE LET prev == StringsUpTo(n - 1)
         IN  prev \cup {Append(s, c) : s \in prev, c \in Alphabet}

Digits == <<"0", "1", "2", "3", "4", "5", "6", "7", "8", "9">>

IsDigit(c) == \E d \in 1..10 : Digits[d] = c

DigitVal(c) == (CHOOSE d \in 1..10 : Digits[d] = c) - 1

\* f"{n}" for a Python int
RECURSIVE FormatInt(_)
FormatInt(n) ==
    IF n < 10 THEN <<Digits[n + 1]>>
    ELSE Append(FormatInt(n \div 10), Digits[(n % 10) + 1])

Lower(c) == IF c = "A" THEN "a" ELSE c

LowerSeq(s) == [i \in 1..Len(s) |-> Lower(s[i])]

Drop(s, n) == SubSeq(s, n + 1, Len(s))

\* s contains t as a contiguous substring, compared case-insensitively
ContainsCI(s, t) ==
    \E i \in 0..(Len(s) - Len(t)) :
        LowerSeq(SubSeq(s, i + 1, i + Len(t))) = LowerSeq(t)

-----------------------------------------------------------------------------
(* The store: PostgreSQL as the pages use it *)

\* lexing of a string literal, from just after its opening quote:
\* '' is an escaped quote, a single ' closes the literal
RECURSIVE LexLiteral(_, _)
LexLiteral(s, acc) ==
    IF s = <<>> THEN [ok |-> FALSE, val |-> acc, rest |-> <<>>]
    ELSE IF Head(s) = Q /\ ~(Len(s) >= 2 /\ s[2] = Q)
         THEN [ok |-> TRUE, val |-> acc, rest |-> Tail(s)]
         ELSE LexLiteral(Drop(s, IF Head(s) = Q THEN 2 ELSE 1), Append(acc, Head(s)))

\* lexing of an integer literal
RECURSIVE LexNumber(_, _, _)
LexNumber(s, acc, seen) ==
    IF s # <<>> /\ IsDigit(Head(s))
    THEN LexNumber(Tail(s), acc * 10 + DigitVal(Head(s)), TRUE)
    ELSE [ok |-> seen, val |-> acc, rest |-> s]

\* template tokens that start a predicate comparing a column with a literal
TextOps == {"cat.category_name = ", "c.type = ", "c.gender = ", "c.level = ",
            "v.country_name = ", "c.name ILIKE ", "c.country = ", "c.name = "}
NumOps == {"cr.rank >= ", "cr.rank <= ", "cr.points >= ", "cr.points <= "}

\* One step of parsing the text from WHERE to the end of the statement.
\* When a predicate is expected (expectPred) it reads one: `1 = 1`, a column
\* compared with a string literal, or a column compared with a number.
\* After a predicate it reads what may follow: AND, the ORDER BY clause or
\* the end of the statement, or a -- comment, which hides the rest of the line.
Parsed(acc) == [state |-> "done", rest |-> <<>>, preds |-> acc]
SyntaxError == [state |-> "error", rest |-> <<>>, preds |-> <<>>]
AfterPred(rest, acc) == [state |-> "after", rest |-> rest, preds |-> acc]

TextPred(op, lit, acc) ==
    IF lit.ok
    THEN AfterPred(lit.rest, Append(acc, [op |-> op, text |-> lit.val, num |-> 0]))
    ELSE SyntaxError

NumPred(op, n, acc) ==
    IF n.ok
    THEN AfterPred(n.rest, Append(acc, [op |-> op, text |-> <<>>, num |-> n.val]))
    ELSE SyntaxError

ParseStep(s, acc, expectPred) ==
    IF expectPred
    THEN IF s = <<>> THEN SyntaxError
         ELSE IF Head(s) = "1 = 1" THEN AfterPred(Tail(s), acc)
         ELSE IF Head(s) \in TextOps
              THEN IF Len(s) >= 2 /\ s[2] = Q
                   THEN TextPred(Head(s), LexLiteral(Drop(s, 2), <<>>), acc)
                   ELSE SyntaxError
         ELSE IF Head(s) \in NumOps
              THEN NumPred(Head(s), LexNumber(Tail(s), 0, FALSE), acc)
         ELSE SyntaxError
    ELSE IF s = <<>> THEN Parsed(acc)
         ELSE IF Head(s) = " AND "
              THEN [state |-> "pred", rest |-> Tail(s), preds |-> acc]
         ELSE IF Head(s) \in {" ORDER BY ", ";"}
              THEN IF Len(s) = 1 THEN Parsed(acc) ELSE SyntaxError
         ELSE IF Len(s) >= 2 /\ s[1] = "-" /\ s[2] = "-" THEN Parsed(acc)
         ELSE SyntaxError

RECURSIVE Parse(_, _, _), ParseOn(_)
Parse(s, acc, expectPred) == ParseOn(ParseStep(s, acc, expectPred))

ParseOn(step) ==
    IF step.state \in {"done", "error"}
    THEN [ok |-> step.state = "done", preds |-> step.preds]
    ELSE Parse(step.rest, step.preds, step.state = "pred")

\* the predicates of a statement's WHERE clause; a statement without one
\* goes on with its ORDER BY clause or ends
ParseWhere(s) ==
    IF s # <<>> /\ Head(s) = "WHERE " THEN Parse(Tail(s), <<>>, TRUE)
    ELSE Parse(s, <<>>, FALSE)

\* pattern LIKE text, with % and _ as wildcards
RECURSIVE Like(_, _)
Like(p, s) ==
    IF p = <<>> THEN s = <<>>
    ELSE IF Head(p) = "%"
         THEN Like(Tail(p), s) \/ (s # <<>> /\ Like(p, Tail(s)))
         ELSE /\ s # <<>>
              /\ (Head(p) = "_" \/ Head(p) = Head(s))
              /\ Like(Tail(p), Tail(s))

\* the value of the column a predicate names, in a joined row
TextColumn(op, row) ==
    CASE op = "cat.category_name = " -> row.category_name
      [] op = "c.type = "            -> row.type
      [] op = "c.gender = "          -> row.gender
      [] op = "c.level = "           -> row.level
      [] op = "v.country_name = "    -> row.country_name
      [] op = "c.country = "         -> row.country
      [] OTHER                       -> row.competitor_name

Satisfies(row, p) ==
    IF p.op \in NumOps
    THEN CASE p.op = "cr.rank >= "   -> row.rank >= p.num
           [] p.op = "cr.rank <= "   -> row.rank <= p.num
           [] p.op = "cr.points >= " -> row.points >= p.num
           [] OTHER                  -> row.points <= p.num
    ELSE LET v == TextColumn(p.op, row)
         IN  /\ v # Null
             /\ IF p.op = "c.name ILIKE "
                THEN Like(LowerSeq(p.text), LowerSeq(v))
                ELSE v = p.text

SatisfiesAll(row, preds) == \A i \in 1..Len(preds) : Satisfies(row, preds[i])

-----------------------------------------------------------------------------
(* Contents of the store.  Store(k) holds the first k rows of every table. *)

AllCategories ==
    { [category_id |-> 1, category_name |-> <<"a">>],
      [category_id |-> 2, category_name |-> All],
      [category_id |-> 3, category_name |-> <<"a", Q>>] }

AllCompetitions ==
    { [competition_id |-> 1, category_id |-> 1, type |-> <<"s">>,
       gender |-> <<"m">>, level |-> <<"x">>, parent_id |-> 0],
      [competition_id |-> 2, category_id |-> 2, type |-> <<"d">>,
       gender |-> <<"m">>, level |-> Null, parent_id |-> 1],
      [competition_id |-> 3, category_id |-> 3, type |-> <<"s">>,
       gender |-> <<"w">>, level |-> <<"x">>, parent_id |-> 1] }

AllComplexes ==
    { [complex_id |-> 1, complex_name |-> <<"p">>],
      [complex_id |-> 2, complex_name |-> <<"q">>],
      [complex_id |-> 3, complex_name |-> <<"r">>] }

AllVenues ==
    { [venue_id |-> 1, complex_id |-> 1, country_name |-> <<"x">>],
      [venue_id |-> 2, complex_id |-> 1, country_name |-> <<"y", Q, "z">>],
      [venue_id |-> 3, complex_id |-> 2, country_name |-> <<"x">>] }

AllCompetitors ==
    { [competitor_id |-> 1, name |-> <<"A", "b">>, country |-> <<"x">>],
      [competitor_id |-> 2, name |-> <<"a", Q>>, country |-> All],
      [competitor_id |-> 3, name |-> <<"b">>, country |-> <<"x">>] }

AllRankings ==
    { [competitor_id |-> 1, rank |-> 1, points |-> 50],
      [competitor_id |-> 2, rank |-> 2, points |-> 0],
      [competitor_id |-> 3, rank |-> 10001, points |-> 5] }

Store(k) ==
    [ categories   |-> {r \in AllCategories : r.category_id <= k},
      competitions |-> {r \in AllCompetitions : r.competition_id <= k},
      complexes    |-> {r \in AllComplexes : r.complex_id <= k},
      venues       |-> {r \in AllVenues : r.venue_id <= k},
      competitors  |-> {r \in AllCompetitors : r.competitor_id <= k},
      rankings     |-> {r \in AllRankings : r.competitor_id <= k} ]

Stores == {Store(k) : k \in 0..Cardinality(AllCompetitions)}

-----------------------------------------------------------------------------
(* Tables (pandas DataFrames) *)

\* pd.DataFrame(): no rows, no columns
EmptyTable == [cols |-> <<>>, rows |-> {}]

\* a page that reads its tables without testing them
IsEmptyUntested(df) == FALSE

\* DataFrame.empty: some axis has length 0
IsEmpty(df) == Len(df.cols) = 0 \/ df.rows = {}

HasColumn(df, c) == \E i \in 1..Len(df.cols) : df.cols[i] = c

\* df[c].tolist(), as the set of its values; KeyError when c is no column
ColumnValues(df, c) == {r[c] : r \in df.rows}

-----------------------------------------------------------------------------
(* Queries of 2_Complexes_Venues.py *)

VenuesJoinComplexes ==
    { [venue_id |-> v.venue_id, complex_name |-> c.complex_name,
       country_name |-> v.country_name] :
      <<v, c>> \in {x \in store.venues \X store.complexes :
                        x[1].complex_id = x[2].complex_id} }

VenuesOf(c) == {v \in store.venues : v.complex_id = c.complex_id}

\* the rows a statement returns: [ok, cols, rows], or [ok |-> FALSE] with the
\* store's failure message.  `where` is the text from WHERE on.
Rows(cols, rows) == [ok |-> TRUE, cols |-> cols, rows |-> rows, msg |-> ""]
Failure(msg) == [ok |-> FALSE, cols |-> <<>>, rows |-> {}, msg |-> msg]

Selected(cols, rows, parsed) ==
    IF parsed.ok
    THEN Rows(cols, {r \in rows : SatisfiesAll(r, parsed.preds)})
    ELSE Failure("syntax error")

Filtered(cols, rows, where) == Selected(cols, rows, ParseWhere(where))

VenuesComplexesQuery == [id |-> "venues_complexes", where |-> <<" ORDER BY ">>]
VenuesPerComplexQuery == [id |-> "venues_per_complex", where |-> <<" ORDER BY ">>]
CountriesVenuesQuery == [id |-> "countries_venues", where |-> <<" ORDER BY ">>]
MultiVenueComplexesQuery == [id |-> "multi_venue_complexes", where |-> <<" ORDER BY ">>]

\* f"... WHERE v.country_name = '{selected_country_venue}' ORDER BY venue_name;"
\* (the ORDER BY clause is on the next line of the statement)
VenuesByCountryQuery(selected_country_venue) ==
    [id |-> "venues_by_country",
     where |-> <<"WHERE ", "v.country_name = ", Q>> \o selected_country_venue \o <<Q>>]

ExecuteVenues(query) ==
    CASE query.id = "venues_complexes" ->
            Rows(<<"venue_name", "complex_name", "city_name", "country_name", "timezone">>,
                 VenuesJoinComplexes)
      [] query.id = "venues_per_complex" ->
            Rows(<<"complex_name", "number_of_venues">>,
                 {[complex_name |-> c.complex_name,
                   number_of_venues |-> Cardinality(VenuesOf(c))] : c \in store.complexes})
      [] query.id = "countries_venues" ->
            Rows(<<"country_name">>,
                 {[country_name |-> v.country_name] : v \in store.venues})
      [] query.id = "venues_by_country" ->
            Filtered(<<"venue_name", "city_name", "country_name", "timezone", "complex_name">>,
                     {[venue_id |-> v.venue_id, country_name |-> v.country_name] :
                          v \in store.venues},
                     query.where)
      [] OTHER ->
            Rows(<<"complex_name", "number_of_venues", "venue_list">>,
                 {[complex_name |-> c.complex_name,
                   number_of_venues |-> Cardinality(VenuesOf(c))] :
                      c \in {x \in store.complexes : Cardinality(VenuesOf(x)) > 1}})

VenuesQueryIds == {"venues_complexes", "venues_per_complex", "countries_venues",
                   "venues_by_country", "multi_venue_complexes"}

-----------------------------------------------------------------------------
(* Queries of 1_Competitions.py *)

CompetitionsJoinCategories ==
    { [competition_id |-> c.competition_id, category_name |-> cat.category_name,
       type |-> c.type, gender |-> c.gender, level |-> c.level] :
      <<c, cat>> \in {x \in store.competitions \X store.categories :
                          x[1].category_id = x[2].category_id} }

AllCategoriesQuery == [id |-> "all_categories", where |-> <<" ORDER BY ">>]
AllTypesQuery == [id |-> "all_types", where |-> <<" ORDER BY ">>]
AllGendersQuery == [id |-> "all_genders", where |-> <<" ORDER BY ">>]
AllLevelsQuery == [id |-> "all_levels", where |-> <<" ORDER BY ">>]
CompetitionsPerCategoryQuery == [id |-> "competitions_per_category", where |-> <<" ORDER BY ">>]
HierarchyQuery == [id |-> "competition_hierarchy", where |-> <<" ORDER BY ">>]

\* f"<column> = '{selected}'"
Clause(op, selected) == <<op, Q>> \o selected \o <<Q>>

\* where_clauses, as built by the four `if selected_x != 'All'` statements
WhereClauses(selected_category, selected_type, selected_gender, selected_level) ==
    (IF selected_category # All
     THEN <<Clause("cat.category_name = ", selected_category)>> ELSE <<>>)
    \o (IF selected_type # All THEN <<Clause("c.type = ", selected_type)>> ELSE <<>>)
    \o (IF selected_gender # All THEN <<Clause("c.gender = ", selected_gender)>> ELSE <<>>)
    \o (IF selected_level # All THEN <<Clause("c.level = ", selected_level)>> ELSE <<>>)

\* " AND ".join(where_clauses)
RECURSIVE JoinAnd(_)
JoinAnd(clauses) ==
    IF Len(clauses) = 0 THEN <<>>
    ELSE IF Len(clauses) = 1 THEN clauses[1]
    ELSE clauses[1] \o <<" AND ">> \o JoinAnd(Tail(clauses))

\* "WHERE " + " AND ".join(where_clauses) if where_clauses else ""
WhereConditionAlwaysWhere(where_clauses) == <<"WHERE ">> \o JoinAnd(where_clauses)
WhereCondition(where_clauses) ==
    IF where_clauses # <<>> THEN <<"WHERE ">> \o JoinAnd(where_clauses) ELSE <<>>

\* the ORDER BY clause is on the next line of the statement
FilteredCompetitionsQuery(where_condition) ==
    [id |-> "filtered_competitions", where |-> where_condition]

ExecuteCompetitions(query) ==
    CASE query.id = "all_categories" ->
            Rows(<<"category_name">>,
                 {[category_name |-> c.category_name] : c \in store.categories})
      [] query.id = "all_types" ->
            Rows(<<"type">>, {[type |-> c.type] : c \in store.competitions})
      [] query.id = "all_genders" ->
            Rows(<<"gender">>, {[gender |-> c.gender] : c \in store.competitions})
      [] query.id = "all_levels" ->
            Rows(<<"level">>,
                 {[level |-> c.level] : c \in {x \in store.competitions : x.level # Null}})
      [] query.id = "filtered_competitions" ->
            Filtered(<<"competition_name", "category_name", "type", "gender", "level",
                       "is_top_level">>,
                     CompetitionsJoinCategories, query.where)
      [] query.id = "competitions_per_category" ->
            Rows(<<"category_name", "number_of_competitions">>,
                 {[category_name |-> cat.category_name,
                   number_of_competitions |->
                       Cardinality({c \in store.competitions :
                                        c.category_id = cat.category_id})] :
                      cat \in store.categories})
      [] OTHER ->
            Rows(<<"parent_competition", "sub_competition", "type", "gender", "level">>,
                 {[competition_id |-> c.competition_id, parent_id |-> c.parent_id] :
                      c \in store.competitions})

CompetitionsQueryIds == {"all_categories", "all_types", "all_genders", "all_levels",
                         "filtered_competitions", "competitions_per_category",
                         "competition_hierarchy"}

-----------------------------------------------------------------------------
(* Queries of 3_Competitor_Rankings.py *)

\* value= of the four st.number_input widgets
DefaultMinRank == 1
DefaultMaxRank == 10000
DefaultMinPoints == 0
DefaultMaxPoints == 1000000
\* LIMIT of the two leaderboards
Limit == 10

RankingsJoinCompetitors ==
    { [competitor_id |-> c.competitor_id, competitor_name |-> c.name,
       rank |-> cr.rank, points |-> cr.points, country |-> c.country] :
      <<cr, c>> \in {x \in store.rankings \X store.competitors :
                         x[1].competitor_id = x[2].competitor_id} }

CompetitorCountriesQuery == [id |-> "competitor_countries", where |-> <<" ORDER BY ">>]
TopRankedQuery == [id |-> "top_ranked", where |-> <<" ORDER BY ">>]
HighestPointsQuery == [id |-> "highest_points", where |-> <<" ORDER BY ">>]
CountryAnalysisQuery == [id |-> "country_analysis", where |-> <<" ORDER BY ">>]

\* search_query_base after the += statements; everything from WHERE on is one
\* line of the statement
SearchQuery(competitor_name_search, min_rank, max_rank, min_points, max_points, selected_country_competitor) ==
    [id |-> "filtered_competitors",
     where |->
        <<"WHERE ", "1 = 1">>
        \o (IF competitor_name_search # <<>>
            THEN <<" AND ", "c.name ILIKE ", Q, "%">> \o competitor_name_search \o <<"%", Q>>
            ELSE <<>>)
        \o <<" AND ", "cr.rank >= ">> \o FormatInt(min_rank)
        \o <<" AND ", "cr.rank <= ">> \o FormatInt(max_rank)
        \o <<" AND ", "cr.points >= ">> \o FormatInt(min_points)
        \o <<" AND ", "cr.points <= ">> \o FormatInt(max_points)
        \o (IF selected_country_competitor # All
            THEN <<" AND ", "c.country = ", Q>> \o selected_country_competitor \o <<Q>>
            ELSE <<>>)
        \o <<" ORDER BY ">>]

\* f"... WHERE c.name = '{selected_competitor_name}';"
CompetitorDetailsQuery(selected_competitor_name) ==
    [id |-> "competitor_details",
     where |-> <<"WHERE ", "c.name = ", Q>> \o selected_competitor_name \o <<Q, ";">>]

\* ORDER BY column [DESC] LIMIT: the first Limit rows in that order
FirstRows(rows, column, desc) ==
    IF Cardinality(rows) <= Limit THEN rows
    ELSE CHOOSE S \in SUBSET rows :
             /\ Cardinality(S) = Limit
             /\ \A a \in S, b \in rows \ S :
                    IF desc THEN a[column] >= b[column] ELSE a[column] <= b[column]

ExecuteRankings(query) ==
    CASE query.id = "competitor_countries" ->
            Rows(<<"country">>, {[country |-> c.country] : c \in store.competitors})
      [] query.id = "filtered_competitors" ->
            Filtered(<<"competitor_name", "rank", "movement", "points",
                       "competitions_played", "country", "country_code">>,
                     RankingsJoinCompetitors, query.where)
      [] query.id = "competitor_details" ->
            Filtered(<<"competitor_name", "rank", "movement", "points",
                       "competitions_played", "country", "country_code", "abbreviation">>,
                     RankingsJoinCompetitors, query.where)
      [] query.id = "top_ranked" ->
            Rows(<<"competitor_name", "rank", "points", "country">>,
                 FirstRows(RankingsJoinCompetitors, "rank", FALSE))
      [] query.id = "highest_points" ->
            Rows(<<"competitor_name", "points", "rank", "country">>,
                 FirstRows(RankingsJoinCompetitors, "points", TRUE))
      [] OTHER ->
            Rows(<<"country", "number_of_competitors", "average_points">>,
                 {[country |-> k,
                   number_of_competitors |->
                       Cardinality({r \in RankingsJoinCompetitors : r.country = k})] :
                      k \in {r.country : r \in RankingsJoinCompetitors}})

\* connection.execute(text(query)) and result.fetchall(); `fault` is a failure
\* of the store or of the link to it while the statement runs
Execute(query, fault) ==
    IF fault THEN Failure("server closed the connection")
    ELSE IF query.id \in VenuesQueryIds THEN ExecuteVenues(query)
    ELSE IF query.id \in CompetitionsQueryIds THEN ExecuteCompetitions(query)
    ELSE ExecuteRankings(query)

-----------------------------------------------------------------------------
(* Connection Provider and Query Runner (the same text on the three pages) *)

Pages == {"Competitions", "Venues", "Rankings"}

\* None, the value get_db_connection returns on failure
None == <<>>
\* a function key st.cache_resource holds no value for
NoEntry == <<"no entry">>

WarningMsg ==
    [kind |-> "warning",
     text |-> <<"Database connection not established. Some features may not work.">>]
ErrorMsg(e) == [kind |-> "error", text |-> <<"Error executing query: ", e>>]
InfoMsg(t) == [kind |-> "info", text |-> <<t>>]

\* st.cache_resource keys its memo by the decorated function: its module
\* ("__main__" for every page script), its qualified name and its source text.
\* The text on page 1 has a blank line before `return None`; pages 2 and 3
\* hold the same text.
FuncKey(p) == IF p = "Competitions" THEN "get_db_connection/1" ELSE "get_db_connection/2"

FuncKeys == {FuncKey(p) : p \in Pages}

\* create_engine calls (each followed by its probe) made in this process
TotalRuns == bodyRuns["get_db_connection/1"] + bodyRuns["get_db_connection/2"]

\* the body of get_db_connection: create_engine, then the SELECT 1 probe;
\* `up` is whether the store answers, `id` names the Engine object created
\* (the page whose render created it, and a serial number)
GetDbConnectionBody(up, id) == IF up THEN id ELSE None

\* whether st.cache_resource must run the body for this key
CacheMissAlways(key) == TRUE
CacheMiss(key) == cache[key] = NoEntry

\* engine = get_db_connection()
GetDbConnection ==
    /\ pc = "connect"
    /\ LET key == FuncKey(page)
       IN  IF CacheMiss(key)
           THEN /\ TotalRuns < MaxOpens
                /\ \E up \in BOOLEAN :
                       LET result == GetDbConnectionBody(up, <<page, bodyRuns[key] + 1>>)
                       IN  /\ cache' = [cache EXCEPT ![key] = result]
                           /\ engine' = result
                /\ bodyRuns' = [bodyRuns EXCEPT ![key] = @ + 1]
           ELSE /\ engine' = cache[key]
                /\ UNCHANGED <<cache, bodyRuns>>
    /\ pc' = CASE page = "Competitions" -> "all_categories"
               [] page = "Venues"       -> "venues_complexes"
               [] OTHER                 -> "inputs"
    /\ UNCHANGED <<store, page, sel, nums, dfs, msgs, connects>>

\* what run_sql_query returns and does, given how the try block ended:
\* the DataFrame, the messages rendered, the connect() calls made, and whether
\* an exception leaves the function
Returned(df) == [df |-> df, msgs |-> <<>>, connects |-> 1, raised |-> FALSE]
OnNone == [df |-> EmptyTable, msgs |-> <<WarningMsg>>, connects |-> 0, raised |-> FALSE]
OnException(e) ==
    [df |-> EmptyTable, msgs |-> <<ErrorMsg(e)>>, connects |-> 1, raised |-> FALSE]

\* the try block with its except clause
TryQueryNoExcept(res) ==
    IF res.ok THEN Returned([cols |-> res.cols, rows |-> res.rows])
    ELSE [df |-> EmptyTable, msgs |-> <<>>, connects |-> 1, raised |-> TRUE]
TryQuery(res) ==
    IF res.ok THEN Returned([cols |-> res.cols, rows |-> res.rows])
    ELSE OnException(res.msg)

\* run_sql_query(query, engine_obj)
RunSqlQueryNoNoneCheck(query, engine_obj, fault) ==
    IF engine_obj = None
    THEN OnException("'NoneType' object has no attribute 'connect'")
    ELSE TryQuery(Execute(query, fault))
RunSqlQuery(query, engine_obj, fault) ==
    IF engine_obj = None THEN OnNone
    ELSE TryQuery(Execute(query, fault))

\* df[column] raises KeyError when the table is read and has no such column
KeyError(df, column) == ~IsEmpty(df) /\ ~HasColumn(df, column)

\* if not df.empty: st.dataframe(df) else: st.info(...), for each text in texts
InfoIfEmptyAlways(df, texts) == [i \in 1..Len(texts) |-> InfoMsg(texts[i])]
InfoIfEmpty(df, texts) ==
    IF IsEmpty(df) THEN [i \in 1..Len(texts) |-> InfoMsg(texts[i])] ELSE <<>>

NoColumn == ""

\* a statement `name = run_sql_query(query)` followed by the page logic on the
\* result r: `texts` are the st.info messages of its else branches, `column`
\* the column it reads when the result is not empty (NoColumn: none),
\* `nextEmpty` and `nextFull` the statement reached with an empty result and
\* with a result that has rows
Bind(name, r, texts, column, nextEmpty, nextFull) ==
    /\ connects' = connects + r.connects
    /\ IF r.raised
       THEN /\ pc' = "crashed"
            /\ UNCHANGED <<dfs, msgs>>
       ELSE /\ dfs' = (name :> r.df) @@ dfs
            /\ msgs' = msgs \o r.msgs \o InfoIfEmpty(r.df, texts)
            /\ pc' = IF column # NoColumn /\ KeyError(r.df, column) THEN "crashed"
                     ELSE IF IsEmpty(r.df) THEN nextEmpty ELSE nextFull
    /\ UNCHANGED <<store, cache, bodyRuns, page, engine, sel, nums>>

Call(name, query, fault, texts, column, nextEmpty, nextFull) ==
    Bind(name, RunSqlQuery(query, engine, fault), texts, column, nextEmpty, nextFull)

\* a selectbox over the values of a column read from the store
\* (df[column].tolist() raises KeyError when df has no such column)
SelectFrom(widget, options, keyError, next) ==
    /\ IF keyError
       THEN /\ pc' = "crashed"
            /\ UNCHANGED sel
       ELSE /\ \E v \in options : sel' = (widget :> v) @@ sel
            /\ pc' = next
    /\ UNCHANGED <<store, cache, bodyRuns, page, engine, nums, dfs, msgs, connects>>

\* ['All'] + (df[column].tolist() if not df.empty else [])
OptionsWithAll(df, column) ==
    {All} \cup (IF ~IsEmpty(df) THEN ColumnValues(df, column) ELSE {})

-----------------------------------------------------------------------------
(* 2_Complexes_Venues.py *)

VenuesComplexes ==
    /\ page = "Venues" /\ pc = "venues_complexes"
    /\ \E fault \in BOOLEAN :
           Call("venues_complexes_df", VenuesComplexesQuery, fault,
                <<>>, NoColumn, "venues_per_complex", "venues_per_complex")

\* ... if not venues_per_complex_df.empty: st.bar_chart(df.set_index('complex_name'))
VenuesPerComplex ==
    /\ page = "Venues" /\ pc = "venues_per_complex"
    /\ \E fault \in BOOLEAN :
           Call("venues_per_complex_df", VenuesPerComplexQuery, fault,
                <<>>, "complex_name", "countries_venues", "countries_venues")

CountriesVenues ==
    /\ page = "Venues" /\ pc = "countries_venues"
    /\ \E fault \in BOOLEAN :
           Call("countries_venues", CountriesVenuesQuery, fault,
                <<"No venue countries available in the database.">>,
                NoColumn, "multi_venue_complexes", "selected_country_venue")

\* st.selectbox("Select a Country", countries_venues['country_name'].tolist(), index=0)
SelectedCountryVenue ==
    /\ page = "Venues" /\ pc = "selected_country_venue"
    /\ SelectFrom("selected_country_venue",
                  ColumnValues(dfs["countries_venues"], "country_name"),
                  ~HasColumn(dfs["countries_venues"], "country_name"),
                  "venues_by_country")

VenuesByCountry ==
    /\ page = "Venues" /\ pc = "venues_by_country"
    /\ \E fault \in BOOLEAN :
           Call("venues_by_country_df",
                VenuesByCountryQuery(sel["selected_country_venue"]), fault,
                <<>>, NoColumn, "multi_venue_complexes", "multi_venue_complexes")

MultiVenueComplexes ==
    /\ page = "Venues" /\ pc = "multi_venue_complexes"
    /\ \E fault \in BOOLEAN :
           Call("multi_venue_complexes_df", MultiVenueComplexesQuery, fault,
                <<>>, NoColumn, "end", "end")

-----------------------------------------------------------------------------
(* 1_Competitions.py *)

AllCategoriesDf ==
    /\ page = "Competitions" /\ pc = "all_categories"
    /\ \E fault \in BOOLEAN :
           Call("all_categories_df", AllCategoriesQuery, fault,
                <<>>, NoColumn, "all_types", "all_types")

AllTypesDf ==
    /\ page = "Competitions" /\ pc = "all_types"
    /\ \E fault \in BOOLEAN :
           Call("all_types_df", AllTypesQuery, fault,
                <<>>, NoColumn, "all_genders", "all_genders")

AllGendersDf ==
    /\ page = "Competitions" /\ pc = "all_genders"
    /\ \E fault \in BOOLEAN :
           Call("all_genders_df", AllGendersQuery, fault,
                <<>>, NoColumn, "all_levels", "all_levels")

AllLevelsDf ==
    /\ page = "Competitions" /\ pc = "all_levels"
    /\ \E fault \in BOOLEAN :
           Call("all_levels_df", AllLevelsQuery, fault,
                <<>>, NoColumn, "selected_category", "selected_category")

SelectedCategory ==
    /\ page = "Competitions" /\ pc = "selected_category"
    /\ SelectFrom("selected_category",
                  OptionsWithAll(dfs["all_categories_df"], "category_name"),
                  KeyError(dfs["all_categories_df"], "category_name"),
                  "selected_type")

SelectedType ==
    /\ page = "Competitions" /\ pc = "selected_type"
    /\ SelectFrom("selected_type",
                  OptionsWithAll(dfs["all_types_df"], "type"),
                  KeyError(dfs["all_types_df"], "type"),
                  "selected_gender")

SelectedGender ==
    /\ page = "Competitions" /\ pc = "selected_gender"
    /\ SelectFrom("selected_gender",
                  OptionsWithAll(dfs["all_genders_df"], "gender"),
                  KeyError(dfs["all_genders_df"], "gender"),
                  "selected_level")

SelectedLevel ==
    /\ page = "Competitions" /\ pc = "selected_level"
    /\ SelectFrom("selected_level",
                  OptionsWithAll(dfs["all_levels_df"], "level"),
                  KeyError(dfs["all_levels_df"], "level"),
                  "filtered_competitions")

\* where_condition as the script has built it when the filtered query runs
WhereConditionNow ==
    WhereCondition(WhereClauses(sel["selected_category"], sel["selected_type"],
                                sel["selected_gender"], sel["selected_level"]))

FilteredCompetitionsDf ==
    /\ page = "Competitions" /\ pc = "filtered_competitions"
    /\ \E fault \in BOOLEAN :
           Call("filtered_competitions_df", FilteredCompetitionsQuery(WhereConditionNow), fault,
                <<"No competitions found matching the selected filters.">>,
                NoColumn, "competitions_per_category", "competitions_per_category")

\* ... if not df.empty: st.bar_chart(df.set_index('category_name'))
CompetitionsPerCategoryDf ==
    /\ page = "Competitions" /\ pc = "competitions_per_category"
    /\ \E fault \in BOOLEAN :
           Call("competitions_per_category_df", CompetitionsPerCategoryQuery, fault,
                <<>>, "category_name", "competition_hierarchy", "competition_hierarchy")

CompetitionHierarchyDf ==
    /\ page = "Competitions" /\ pc = "competition_hierarchy"
    /\ \E fault \in BOOLEAN :
           Call("competition_hierarchy_df", HierarchyQuery, fault,
                <<>>, NoColumn, "end", "end")

-----------------------------------------------------------------------------
(* 3_Competitor_Rankings.py *)

\* texts typed into the name search: every text of at most MaxLen characters
\* over Alphabet, and some longer or with other characters
SearchInputs ==
    StringsUpTo(MaxLen) \cup {<<"A">>, <<"b">>, <<"_">>, <<"-">>, <<Q, "-", "-">>}

\* st.number_input(..., min_value=1, value=...): any integer from 1 up
RankInputs == (1..MaxRank) \cup {DefaultMinRank, DefaultMaxRank}

\* st.number_input(..., min_value=0, value=...)
PointsInputs == {<<DefaultMinPoints, DefaultMaxPoints>>, <<DefaultMinPoints, 10>>}

CompetitorNameSearch ==
    /\ page = "Rankings" /\ pc = "inputs"
    /\ \E text \in SearchInputs : sel' = ("competitor_name_search" :> text) @@ sel
    /\ pc' = "numbers"
    /\ UNCHANGED <<store, cache, bodyRuns, page, engine, nums, dfs, msgs, connects>>

RankAndPoints ==
    /\ page = "Rankings" /\ pc = "numbers"
    /\ \E lo \in RankInputs, hi \in RankInputs, pts \in PointsInputs :
           nums' = [min_rank |-> lo, max_rank |-> hi,
                    min_points |-> pts[1], max_points |-> pts[2]]
    /\ pc' = "competitor_countries"
    /\ UNCHANGED <<store, cache, bodyRuns, page, engine, sel, dfs, msgs, connects>>

CompetitorCountriesDf ==
    /\ page = "Rankings" /\ pc = "competitor_countries"
    /\ \E fault \in BOOLEAN :
           Call("competitor_countries_df", CompetitorCountriesQuery, fault,
                <<>>, NoColumn, "selected_country_competitor", "selected_country_competitor")

SelectedCountryCompetitor ==
    /\ page = "Rankings" /\ pc = "selected_country_competitor"
    /\ SelectFrom("selected_country_competitor",
                  OptionsWithAll(dfs["competitor_countries_df"], "country"),
                  KeyError(dfs["competitor_countries_df"], "country"),
                  "filtered_competitors")

\* search_query_base as the script has built it when the filtered query runs
SearchQueryNow ==
    SearchQuery(sel["competitor_name_search"], nums.min_rank, nums.max_rank,
                nums.min_points, nums.max_points, sel["selected_country_competitor"])

\* lines 96-100 and, when the result is empty, the else branch of lines 106-131
FilteredCompetitorsDf ==
    /\ page = "Rankings" /\ pc = "filtered_competitors"
    /\ \E fault \in BOOLEAN :
           Call("filtered_competitors_df", SearchQueryNow, fault,
                <<"No competitors found matching the selected filters.",
                  "No competitors to display details for based on current filters.">>,
                NoColumn, "top_ranked", "selected_competitor_name")

\* st.selectbox("Select a Competitor", df['competitor_name'].tolist(), index=0)
SelectedCompetitorName ==
    /\ page = "Rankings" /\ pc = "selected_competitor_name"
    /\ SelectFrom("selected_competitor_name",
                  ColumnValues(dfs["filtered_competitors_df"], "competitor_name"),
                  ~HasColumn(dfs["filtered_competitors_df"], "competitor_name"),
                  "competitor_details")

\* if selected_competitor_name: competitor_details_df = run_sql_query(...)
CompetitorDetailsDf ==
    /\ page = "Rankings" /\ pc = "competitor_details"
    /\ IF sel["selected_competitor_name"] # <<>>
       THEN \E fault \in BOOLEAN :
                Call("competitor_details_df",
                     CompetitorDetailsQuery(sel["selected_competitor_name"]), fault,
                     <<>>, NoColumn, "top_ranked", "top_ranked")
       ELSE /\ pc' = "top_ranked"
            /\ UNCHANGED <<store, cache, bodyRuns, page, engine, sel, nums, dfs, msgs,
                           connects>>

TopRankedDf ==
    /\ page = "Rankings" /\ pc = "top_ranked"
    /\ \E fault \in BOOLEAN :
           Call("top_ranked_df", TopRankedQuery, fault,
                <<"No top-ranked competitors found.">>,
                NoColumn, "highest_points", "highest_points")

HighestPointsDf ==
    /\ page = "Rankings" /\ pc = "highest_points"
    /\ \E fault \in BOOLEAN :
           Call("highest_points_df", HighestPointsQuery, fault,
                <<"No competitors with highest points found.">>,
                NoColumn, "country_analysis", "country_analysis")

CountryAnalysisDf ==
    /\ page = "Rankings" /\ pc = "country_analysis"
    /\ \E fault \in BOOLEAN :
           Call("country_analysis_df", CountryAnalysisQuery, fault,
                <<"No country-wise analysis data available.">>,
                NoColumn, "end", "end")

-----------------------------------------------------------------------------
(* A render: Streamlit runs the page script in a fresh namespace *)

StartRender ==
    /\ pc \in {"idle", "crashed"}
    /\ \E p \in Pages : page' = p
    /\ pc' = "connect"
    /\ engine' = None
    /\ sel' = <<>>
    /\ nums' = <<>>
    /\ dfs' = <<>>
    /\ msgs' = <<>>
    /\ connects' = 0
    /\ UNCHANGED <<store, cache, bodyRuns>>

\* the last statement has run; the script's namespace is dropped, what it
\* rendered stays on screen
EndRender ==
    /\ pc = "end"
    /\ pc' = "idle"
    /\ engine' = None
    /\ sel' = <<>>
    /\ nums' = <<>>
    /\ dfs' = <<>>
    /\ connects' = 0
    /\ UNCHANGED <<store, cache, bodyRuns, page, msgs>>

Init ==
    /\ store \in Stores
    /\ cache = [k \in FuncKeys |-> NoEntry]
    /\ bodyRuns = [k \in FuncKeys |-> 0]
    /\ page = "Competitions"
    /\ pc = "idle"
    /\ engine = None
    /\ sel = <<>>
    /\ nums = <<>>
    /\ dfs = <<>>
    /\ msgs = <<>>
    /\ connects = 0

Next ==
    \/ StartRender
    \/ GetDbConnection
    \/ AllCategoriesDf
    \/ AllTypesDf
    \/ AllGendersDf
    \/ AllLevelsDf
    \/ SelectedCategory
    \/ SelectedType
    \/ SelectedGender
    \/ SelectedLevel
    \/ FilteredCompetitionsDf
    \/ CompetitionsPerCategoryDf
    \/ CompetitionHierarchyDf
    \/ VenuesComplexes
    \/ VenuesPerComplex
    \/ CountriesVenues
    \/ SelectedCountryVenue
    \/ VenuesByCountry
    \/ MultiVenueComplexes
    \/ CompetitorNameSearch
    \/ RankAndPoints
    \/ CompetitorCountriesDf
    \/ SelectedCountryCompetitor
    \/ FilteredCompetitorsDf
    \/ SelectedCompetitorName
    \/ CompetitorDetailsDf
    \/ TopRankedDf
    \/ HighestPointsDf
    \/ CountryAnalysisDf
    \/ EndRender

Spec == Init /\ [][Next]_vars

-----------------------------------------------------------------------------
(* Vocabulary of the properties *)

\* the statements that call run_sql_query
QueryPcs ==
    {"all_categories", "all_types", "all_genders", "all_levels", "filtered_competitions",
     "competitions_per_category", "competition_hierarchy",
     "venues_complexes", "venues_per_complex", "countries_venues", "venues_by_country",
     "multi_venue_complexes",
     "competitor_countries", "filtered_competitors", "competitor_details", "top_ranked",
     "highest_points", "country_analysis"}

\* the statement at pc calls run_sql_query in this step
CallStep ==
    /\ pc \in QueryPcs
    /\ pc' # pc
    /\ ~(pc = "competitor_details" /\ sel["selected_competitor_name"] = <<>>)

\* the query the statement at pc passes to run_sql_query
QueryAt ==
    CASE pc = "all_categories"            -> AllCategoriesQuery
      [] pc = "all_types"                 -> AllTypesQuery
      [] pc = "all_genders"               -> AllGendersQuery
      [] pc = "all_levels"                -> AllLevelsQuery
      [] pc = "filtered_competitions"     -> FilteredCompetitionsQuery(WhereConditionNow)
      [] pc = "competitions_per_category" -> CompetitionsPerCategoryQuery
      [] pc = "competition_hierarchy"     -> HierarchyQuery
      [] pc = "venues_complexes"          -> VenuesComplexesQuery
      [] pc = "venues_per_complex"        -> VenuesPerComplexQuery
      [] pc = "countries_venues"          -> CountriesVenuesQuery
      [] pc = "venues_by_country"         ->
             VenuesByCountryQuery(sel["selected_country_venue"])
      [] pc = "multi_venue_complexes"     -> MultiVenueComplexesQuery
      [] pc = "competitor_countries"      -> CompetitorCountriesQuery
      [] pc = "filtered_competitors"      -> SearchQueryNow
      [] pc = "competitor_details"        ->
             CompetitorDetailsQuery(sel["selected_competitor_name"])
      [] pc = "top_ranked"                -> TopRankedQuery
      [] pc = "highest_points"            -> HighestPointsQuery
      [] OTHER                            -> CountryAnalysisQuery

\* the script is between its first and its last statement
Rendering == pc \notin {"idle", "connect", "crashed"}

\* the messages a step renders, and the DataFrame variables it binds
Added == SubSeq(msgs', Len(msgs) + 1, Len(msgs'))
Bound == DOMAIN dfs' \ DOMAIN dfs

CountKind(seq, kind) == Cardinality({i \in 1..Len(seq) : seq[i].kind = kind})

HasKind(seq, kind) == \E i \in 1..Len(seq) : seq[i].kind = kind

ZeroRows(df) == df.cols # <<>> /\ df.rows = {}

-----------------------------------------------------------------------------
(* C1 *)

\* C1: on every page, a run_sql_query call made while the handle is None
\* returns the empty Table (no rows, no columns), renders exactly one warning
\* and no error, opens no connection and raises nothing.
C1_NoneStep(added, bound) ==
    /\ pc' # "crashed"
    /\ bound # {}
    /\ \A n \in bound : dfs'[n] = EmptyTable
    /\ added # <<>>
    /\ added[1] = WarningMsg
    /\ CountKind(added, "warning") = 1
    /\ CountKind(added, "error") = 0
    /\ connects' = connects

C1_NullHandle == [][(CallStep /\ engine = None) => C1_NoneStep(Added, Bound)]_vars

\* a render whose handle is None has called run_sql_query on each page
C1_Witness ==
    /\ pc = "end"
    /\ engine = None
    /\ page = "Rankings"
    /\ CountKind(msgs, "warning") = Cardinality(DOMAIN dfs)
    /\ connects = 0

-----------------------------------------------------------------------------
(* C2 *)

\* C2: with a handle, a run_sql_query call whose statement fails (the store
\* rejects its text, or the connection fails while it runs) renders one error
\* that holds the failure message and returns the empty Table; a call whose
\* statement succeeds returns its rows and renders no error; no call raises.
C2_Step(res, added, bound) ==
    /\ pc' # "crashed"
    /\ bound # {}
    /\ \A n \in bound :
           \/ /\ res.ok
              /\ dfs'[n] = [cols |-> res.cols, rows |-> res.rows]
              /\ CountKind(added, "error") = 0
           \/ /\ dfs'[n] = EmptyTable
              /\ added # <<>>
              /\ \/ added[1] = ErrorMsg("server closed the connection")
                 \/ ~res.ok /\ added[1] = ErrorMsg(res.msg)
              /\ CountKind(added, "error") = 1
    /\ CountKind(added, "warning") = 0

C2_FailureSwallowed ==
    [][(CallStep /\ engine # None) =>
           C2_Step(Execute(QueryAt, FALSE), Added, Bound)]_vars

\* a render with a handle went on after a failed statement
C2_Witness ==
    /\ Rendering
    /\ engine # None
    /\ \E i \in 1..Len(msgs) : msgs[i] = ErrorMsg("syntax error")
    /\ \E i \in 1..Len(msgs) : msgs[i] = ErrorMsg("server closed the connection")

-----------------------------------------------------------------------------
(* C3 *)

\* C3 as claimed: in one process the connection is opened and probed at most
\* once; once a call of get_db_connection has returned, every later call, on
\* whichever page, returns that result and runs the body no more.
C3_OpenedOnce ==
    [][(pc = "connect" /\ pc' # pc /\ TotalRuns >= 1) =>
           /\ bodyRuns' = bodyRuns
           /\ \E k \in FuncKeys : cache[k] # NoEntry /\ engine' = cache[k]]_vars

\* C3, amended: the memo is kept per decorated function.  The body of a
\* page's get_db_connection runs at most once in a process, the first call
\* stores its result (an engine or None), every later call made through the
\* same function key hands that result out again without running the body,
\* and the stored result never changes.
C3_LaterCall(key) ==
    IF cache[key] # NoEntry
    THEN /\ engine' = cache[key]
         /\ UNCHANGED <<cache, bodyRuns>>
    ELSE /\ cache'[key] = engine'
         /\ cache'[key] # NoEntry
         /\ bodyRuns'[key] = 1

C3_OncePerFunction ==
    /\ [](\A k \in FuncKeys : bodyRuns[k] <= 1 /\ (cache[k] = NoEntry <=> bodyRuns[k] = 0))
    /\ [](Rendering => engine = cache[FuncKey(page)])
    /\ [][\A k \in FuncKeys : cache[k] # NoEntry => cache'[k] = cache[k]]_vars
    /\ [][(pc = "connect" /\ pc' # pc) => C3_LaterCall(FuncKey(page))]_vars

\* the Rankings page renders with the engine that a render of the Venues page
\* created, after the Competitions page has opened one of its own
C3_Witness ==
    /\ page = "Rankings"
    /\ Rendering
    /\ engine = <<"Venues", 1>>
    /\ cache[FuncKey("Competitions")] = <<"Competitions", 1>>
    /\ TotalRuns = 2

-----------------------------------------------------------------------------
(* C4 *)

AllAtAll ==
    /\ sel["selected_category"] = All
    /\ sel["selected_type"] = All
    /\ sel["selected_gender"] = All
    /\ sel["selected_level"] = All

AllAtDefault ==
    /\ sel["competitor_name_search"] = <<>>
    /\ sel["selected_country_competitor"] = All
    /\ nums.min_rank = DefaultMinRank
    /\ nums.max_rank = DefaultMaxRank
    /\ nums.min_points = DefaultMinPoints
    /\ nums.max_points = DefaultMaxPoints

\* the text from WHERE to the ORDER BY clause
WhereText(query) ==
    IF query.where # <<>> /\ query.where[Len(query.where)] = " ORDER BY "
    THEN SubSeq(query.where, 1, Len(query.where) - 1)
    ELSE query.where

C4_Unfiltered(res, all) == res.ok /\ res.rows = all

\* C4 as claimed: with every filter at its "no filter" value the composed
\* WHERE clause is empty and the statement returns what it returns without a
\* WHERE clause, on the Competitions page and on the Competitor Rankings page.
C4_NoFilterEmptyWhere ==
    /\ (page = "Competitions" /\ pc = "filtered_competitions" /\ AllAtAll) =>
           /\ WhereText(QueryAt) = <<>>
           /\ C4_Unfiltered(Execute(QueryAt, FALSE), CompetitionsJoinCategories)
    /\ (page = "Rankings" /\ pc = "filtered_competitors" /\ AllAtDefault) =>
           /\ WhereText(QueryAt) = <<>>
           /\ C4_Unfiltered(Execute(QueryAt, FALSE), RankingsJoinCompetitors)

WithinDefaults(r) ==
    /\ DefaultMinRank <= r.rank
    /\ r.rank <= DefaultMaxRank
    /\ DefaultMinPoints <= r.points
    /\ r.points <= DefaultMaxPoints

DefaultWhere ==
    <<"WHERE ", "1 = 1",
      " AND ", "cr.rank >= ", "1", " AND ", "cr.rank <= ", "1", "0", "0", "0", "0",
      " AND ", "cr.points >= ", "0",
      " AND ", "cr.points <= ", "1", "0", "0", "0", "0", "0", "0">>

\* C4, amended: on the Competitions page, with the four dropdowns at "All",
\* the WHERE clause is empty and the statement returns every competition
\* joined with its category.  On the Competitor Rankings page, with every
\* filter at its default, the WHERE clause is not empty: it is
\* `1 = 1 AND cr.rank >= 1 AND cr.rank <= 10000 AND cr.points >= 0 AND
\* cr.points <= 1000000`, and the statement returns the ranking rows inside
\* these default ranges and no other.
C4_NoFilter ==
    /\ (page = "Competitions" /\ pc = "filtered_competitions" /\ AllAtAll) =>
           /\ WhereText(QueryAt) = <<>>
           /\ C4_Unfiltered(Execute(QueryAt, FALSE), CompetitionsJoinCategories)
    /\ (page = "Rankings" /\ pc = "filtered_competitors" /\ AllAtDefault) =>
           /\ WhereText(QueryAt) = DefaultWhere
           /\ C4_Unfiltered(Execute(QueryAt, FALSE),
                            {r \in RankingsJoinCompetitors : WithinDefaults(r)})

\* the Rankings page rendered its filtered table with every filter at its
\* default, and a stored ranking is not in it
C4_Witness ==
    /\ page = "Rankings"
    /\ "filtered_competitors_df" \in DOMAIN dfs
    /\ AllAtDefault
    /\ dfs["filtered_competitors_df"].rows # {}
    /\ dfs["filtered_competitors_df"].rows # RankingsJoinCompetitors

-----------------------------------------------------------------------------
(* C5 *)

MatchesDropdowns(r) ==
    /\ sel["selected_category"] # All => r.category_name = sel["selected_category"]
    /\ sel["selected_type"] # All => r.type = sel["selected_type"]
    /\ sel["selected_gender"] # All => r.gender = sel["selected_gender"]
    /\ sel["selected_level"] # All => r.level = sel["selected_level"]

ActiveDropdowns ==
    {w \in {"selected_category", "selected_type", "selected_gender", "selected_level"} :
         sel[w] # All}

C5_Exact(res) ==
    /\ res.ok
    /\ res.rows = {r \in CompetitionsJoinCategories : MatchesDropdowns(r)}

\* C5 as claimed: on the Competitions page, whatever the four dropdowns hold,
\* where_clauses has one equality per dropdown that is not at "All", and the
\* filtered statement returns exactly the competitions that match every
\* selected value on its column.
C5_ExactMatch ==
    (page = "Competitions" /\ pc = "filtered_competitions") =>
        /\ Len(WhereClauses(sel["selected_category"], sel["selected_type"],
                            sel["selected_gender"], sel["selected_level"]))
               = Cardinality(ActiveDropdowns)
        /\ C5_Exact(Execute(QueryAt, FALSE))

-----------------------------------------------------------------------------
(* C6 *)

\* the filters of the Rankings page other than the rank range, as the page
\* describes them
PassesOtherFilters(r) ==
    /\ sel["competitor_name_search"] # <<>> =>
           ContainsCI(r.competitor_name, sel["competitor_name_search"])
    /\ nums.min_points <= r.points
    /\ r.points <= nums.max_points
    /\ sel["selected_country_competitor"] # All =>
           r.country = sel["selected_country_competitor"]

C6_InRange(res) ==
    IF nums.min_rank <= nums.max_rank
    THEN /\ \A r \in res.rows : nums.min_rank <= r.rank /\ r.rank <= nums.max_rank
         /\ \A r \in RankingsJoinCompetitors :
                (nums.min_rank <= r.rank /\ r.rank <= nums.max_rank
                 /\ PassesOtherFilters(r)) => r \in res.rows
    ELSE res.rows = {}

\* C6 as claimed: on the Competitor Rankings page, for a rank range [lo, hi]
\* with lo <= hi every row of the filtered result has its rank in the range
\* and every ranking in the range that passes the other filters is in the
\* result; with lo > hi the filtered result is empty.
C6_RankRange ==
    (page = "Rankings" /\ pc = "filtered_competitors") =>
        C6_InRange(Execute(QueryAt, FALSE))

-----------------------------------------------------------------------------
(* C7 *)

C7_Substring(res, text) ==
    /\ \A r \in res.rows : ContainsCI(r.competitor_name, text)
    /\ (\A r \in RankingsJoinCompetitors : ~ContainsCI(r.competitor_name, text))
           => res.rows = {}

\* C7 as claimed: on the Competitor Rankings page, for a non-empty search
\* string every competitor name in the filtered result contains the string,
\* compared without regard to case, and a string contained in no competitor
\* name gives an empty result.
C7_NameSearch ==
    (page = "Rankings" /\ pc = "filtered_competitors"
     /\ sel["competitor_name_search"] # <<>>) =>
        C7_Substring(Execute(QueryAt, FALSE), sel["competitor_name_search"])

-----------------------------------------------------------------------------
(* C8 *)

\* the queries a page script runs on every path to its last statement
EveryRender(p) ==
    IF p = "Competitions"
    THEN {"all_categories_df", "all_types_df", "all_genders_df", "all_levels_df",
          "filtered_competitions_df", "competitions_per_category_df",
          "competition_hierarchy_df"}
    ELSE IF p = "Venues"
    THEN {"venues_complexes_df", "venues_per_complex_df", "countries_venues",
          "multi_venue_complexes_df"}
    ELSE {"competitor_countries_df", "filtered_competitors_df", "top_ranked_df",
          "highest_points_df", "country_analysis_df"}

\* C8: whatever the outcome of each query of a render (rows, no rows, a failed
\* statement, no handle), no statement of the page script raises: the script
\* never stops at an uncaught exception, and when it is at its last statement
\* it has run every query of the page and bound a DataFrame for each.
C8_RendersToTheEnd ==
    /\ pc # "crashed"
    /\ pc = "end" => EveryRender(page) \subseteq DOMAIN dfs

\* the Rankings page reached its last statement with one table filled, one
\* statement failed and one table empty
C8_Witness ==
    /\ pc = "end"
    /\ page = "Rankings"
    /\ dfs["top_ranked_df"].rows # {}
    /\ dfs["highest_points_df"] = EmptyTable
    /\ dfs["filtered_competitors_df"] = EmptyTable
    /\ HasKind(msgs, "error")
    /\ HasKind(msgs, "info")

-----------------------------------------------------------------------------
(* C9 *)

\* the message a page shows when the DataFrame bound to a variable is empty
\* (variables whose emptiness no page reports have none)
NothingFound ==
    [filtered_competitions_df |-> "No competitions found matching the selected filters.",
     countries_venues |-> "No venue countries available in the database.",
     filtered_competitors_df |-> "No competitors found matching the selected filters.",
     top_ranked_df |-> "No top-ranked competitors found.",
     highest_points_df |-> "No competitors with highest points found.",
     country_analysis_df |-> "No country-wise analysis data available."]

Shows(text) == \E i \in 1..Len(msgs) : msgs[i] = InfoMsg(text)

ShowsFor(n) == n \in DOMAIN NothingFound /\ Shows(NothingFound[n])

\* C9 as claimed: for every query of a page, the "nothing found" message is
\* shown when and only when the statement ran successfully and returned no rows.
C9_InfoIffZeroRows ==
    Rendering => \A n \in DOMAIN dfs : ShowsFor(n) <=> ZeroRows(dfs[n])

\* C9, amended: for the six queries whose result the page tests with
\* `if not df.empty ... else st.info(...)`, the message is shown when and only
\* when the returned DataFrame is empty, which it is after a successful
\* statement without rows, after a failed statement and without a handle
\* alike.  What tells the cases apart is the other message: the render shows
\* one error per failed statement, one warning per call without a handle, and
\* none of either for a statement that ran and returned no rows.  The other
\* queries show no message when they return no rows.
C9_InfoIffEmpty ==
    Rendering =>
        /\ \A n \in DOMAIN dfs \cap DOMAIN NothingFound :
               Shows(NothingFound[n]) <=> (dfs[n] = EmptyTable \/ ZeroRows(dfs[n]))
        /\ CountKind(msgs, "error") =
               IF engine = None THEN 0
               ELSE Cardinality({n \in DOMAIN dfs : dfs[n] = EmptyTable})
        /\ CountKind(msgs, "warning") =
               IF engine = None THEN Cardinality(DOMAIN dfs) ELSE 0

\* with a handle, one statement returned no rows and another failed: both
\* show their "nothing found" message, and the render shows one error
C9_Witness ==
    /\ Rendering
    /\ engine # None
    /\ "filtered_competitors_df" \in DOMAIN dfs
    /\ "top_ranked_df" \in DOMAIN dfs
    /\ ZeroRows(dfs["filtered_competitors_df"])
    /\ dfs["top_ranked_df"] = EmptyTable
    /\ ShowsFor("filtered_competitors_df")
    /\ ShowsFor("top_ranked_df")
    /\ CountKind(msgs, "error") = 1

-----------------------------------------------------------------------------
(* C10 *)

C10_Exact(res, all, column, value) ==
    /\ res.ok
    /\ res.rows = {r \in all : r[column] = value}

OthersAtAll(widget) ==
    \A w \in {"selected_category", "selected_type", "selected_gender", "selected_level"} :
        w # widget => sel[w] = All

OptionOf(name, column) ==
    IF IsEmpty(dfs[name]) THEN {} ELSE ColumnValues(dfs[name], column)

\* C10 as claimed: for every dropdown filled from the store and every value
\* its column holds ("All" and values with a single quote among them), the
\* statement built from the selected value executes without error and returns
\* exactly the rows whose column equals the value.
C10_AnyStoredValue ==
    /\ (page = "Competitions" /\ pc = "filtered_competitions") =>
           /\ (OthersAtAll("selected_category")
                 /\ sel["selected_category"] \in OptionOf("all_categories_df", "category_name")) =>
                  C10_Exact(Execute(QueryAt, FALSE), CompetitionsJoinCategories,
                            "category_name", sel["selected_category"])
           /\ (OthersAtAll("selected_type")
                 /\ sel["selected_type"] \in OptionOf("all_types_df", "type")) =>
                  C10_Exact(Execute(QueryAt, FALSE), CompetitionsJoinCategories,
                            "type", sel["selected_type"])
           /\ (OthersAtAll("selected_gender")
                 /\ sel["selected_gender"] \in OptionOf("all_genders_df", "gender")) =>
                  C10_Exact(Execute(QueryAt, FALSE), CompetitionsJoinCategories,
                            "gender", sel["selected_gender"])
           /\ (OthersAtAll("selected_level")
                 /\ sel["selected_level"] \in OptionOf("all_levels_df", "level")) =>
                  C10_Exact(Execute(QueryAt, FALSE), CompetitionsJoinCategories,
                            "level", sel["selected_level"])
    /\ (page = "Venues" /\ pc = "venues_by_country") =>
           C10_Exact(Execute(QueryAt, FALSE),
                     {[venue_id |-> v.venue_id, country_name |-> v.country_name] :
                          v \in store.venues},
                     "country_name", sel["selected_country_venue"])
    /\ (page = "Rankings" /\ pc = "filtered_competitors" /\ AllAtDefault
          /\ sel["selected_country_competitor"]
                 \in OptionOf("competitor_countries_df", "country")) =>
           C10_Exact(Execute(QueryAt, FALSE),
                     {r \in RankingsJoinCompetitors : WithinDefaults(r)},
                     "country", sel["selected_country_competitor"])
    /\ (page = "Rankings" /\ pc = "competitor_details"
          /\ sel["selected_competitor_name"] # <<>>) =>
           C10_Exact(Execute(QueryAt, FALSE), RankingsJoinCompetitors,
                     "competitor_name", sel["selected_competitor_name"])

====
